---- MODULE Spec2Model ----
(***************************************************************************)
(* A model of the Selenium MCP server's execution context                  *)
(* (selenium_mcp/context.py) and of the tools that read or write its       *)
(* state: the page snapshot and its element references, the reference      *)
(* resolver, the run_tool pipeline and the action recording.               *)
(*                                                                         *)
(* Text is a sequence of atoms (strings): text that comes from the DOM is  *)
(* one character per atom, a literal fragment of an f-string is one atom,  *)
(* and an f-string is the concatenation of its fragments.                  *)
(***************************************************************************)
EXTENDS Integers, Sequences, FiniteSets, TLC

VARIABLES
    driver,             \* BrowserManager.driver: "none" | "live" | "dead" (a session that was lost)
    loc,                \* the page the browser session is on
    current_snapshot,   \* Context.current_snapshot
    action_history,     \* Context.action_history
    recording_enabled,  \* Context.recording_enabled
    pc,                 \* position of the run_tool call in flight
    call,               \* the run_tool call in flight: tool, arguments, params, result
    response,           \* what run_tool returned
    resolved,           \* the last ref_locator call and its result
    invoked,            \* tool names of the run_tool calls since the last start_recording
    captured,           \* the last capture_snapshot call made on its own: page, faults, snapshot before
    closed,             \* whether Context.close released a session and none was created since (now),
                        \* whether it ran and no capture stored a snapshot since (nocapture)
    parked,             \* the other client's request while it does not run: its pc, call and response
    tabs,               \* the session's windows: handles in order, the focused handle, the last tab operation
    explore             \* the planner's exploration: the links, the loop's position, visited_urls, navigations made

vars == <<driver, loc, current_snapshot, action_history, recording_enabled,
          pc, call, response, resolved, invoked, captured, closed, parked, tabs,
          explore>>

(***************************************************************************)
(* Bounds of the model.                                                    *)
(***************************************************************************)
MaxHistory == 1
MaxRef == 2
MaxOver == 2
MaxTabs == 3
MaxHandle == 4
MaxLinks == 3

(***************************************************************************)
(* Text helpers.                                                           *)
(***************************************************************************)
Min(a, b) == IF a < b THEN a ELSE b

\* str.lower() on one atom
LowerAtom(a) ==
    CASE a = "BUTTON" -> "button"
      [] a = "B" -> "b"
      [] a = "C" -> "c"
      [] OTHER -> a

Lower(s) == [i \in DOMAIN s |-> LowerAtom(s[i])]

\* needle in hay
Contains(hay, needle) ==
    \E i \in 0..(Len(hay) - Len(needle)) : SubSeq(hay, i + 1, i + Len(needle)) = needle

RECURSIVE LStrip(_)
LStrip(s) == IF s # <<>> /\ Head(s) = " " THEN LStrip(Tail(s)) ELSE s

RECURSIVE RStrip(_)
RStrip(s) == IF s # <<>> /\ s[Len(s)] = " " THEN RStrip(SubSeq(s, 1, Len(s) - 1)) ELSE s

\* str.strip()
Strip(s) == RStrip(LStrip(s))

\* str.split(): the whitespace-separated words, empty words dropped
RECURSIVE SplitFrom(_, _, _)
SplitFrom(s, word, acc) ==
    IF s = <<>> THEN (IF word = <<>> THEN acc ELSE Append(acc, word))
    ELSE IF Head(s) = " "
         THEN SplitFrom(Tail(s), <<>>, IF word = <<>> THEN acc ELSE Append(acc, word))
         ELSE SplitFrom(Tail(s), Append(word, Head(s)), acc)

Split(s) == SplitFrom(s, <<>>, <<>>)

\* sep.join(words)
RECURSIVE Join(_, _)
Join(words, sep) ==
    IF words = <<>> THEN <<>>
    ELSE IF Len(words) = 1 THEN words[1]
    ELSE words[1] \o sep \o Join(Tail(words), sep)

\* text.replace('"', '\\"')
RECURSIVE EscapeQuotes(_)
EscapeQuotes(s) ==
    IF s = <<>> THEN <<>>
    ELSE (IF Head(s) = "\"" THEN <<"\\", "\"">> ELSE <<Head(s)>>) \o EscapeQuotes(Tail(s))

\* s[:n]
Slice(s, n) == SubSeq(s, 1, Min(n, Len(s)))

\* the first truthy operand of a chain  a or b or ... or ""
RECURSIVE FirstTruthy(_)
FirstTruthy(xs) ==
    IF xs = <<>> THEN <<>>
    ELSE IF Head(xs) # <<>> THEN Head(xs) ELSE FirstTruthy(Tail(xs))

(***************************************************************************)
(* The live page: WebElements as the browser reports them.  An attribute   *)
(* the element does not carry is absent from attrs (get_attribute gives    *)
(* None).                                                                  *)
(***************************************************************************)
HasAttr(node, a) == a \in DOMAIN node.attrs

\* get_attribute(a) or ""
AttrOr(node, a) == IF HasAttr(node, a) THEN node.attrs[a] ELSE <<>>

InteractiveTags == {<<"button">>, <<"input">>, <<"a">>, <<"select">>, <<"textarea">>}
InteractiveRoles == {<<"button">>, <<"link">>, <<"menuitem">>, <<"tab">>, <<"checkbox">>, <<"radio">>}

\* context.py 177-189
IsInteractive(node) ==
    \/ Lower(node.tag_name) \in InteractiveTags
    \/ AttrOr(node, "role") \in InteractiveRoles
    \/ HasAttr(node, "onclick")
    \/ HasAttr(node, "tabindex")
    \/ Contains(Lower(AttrOr(node, "class")), <<"c", "l", "i", "c", "k">>)
    \/ Contains(Lower(AttrOr(node, "class")), <<"b", "t", "n">>)

SnapshotCap == 100
TextCap == 100

\* f"e{i+1}"
Ref(k) == <<"e", ToString(k)>>

\* PageSnapshot; exists = FALSE is Python's None
NoSnapshot == [exists |-> FALSE, elements |-> <<>>, url |-> <<>>, title |-> <<>>]

PageSnapshot(elements, url, title) ==
    [exists |-> TRUE, elements |-> elements, url |-> url, title |-> title]

\* ElementInfo for one retained element; text = <<>> is Python's None
\* (the code never stores an empty string there)
ElementInfo(ref, element) ==
    LET accessible_name == FirstTruthy(<<AttrOr(element, "aria-label"),
                                         Strip(element.text),
                                         AttrOr(element, "value"),
                                         AttrOr(element, "title"),
                                         AttrOr(element, "alt")>>)
    IN [ref |-> ref,
        tag_name |-> Lower(element.tag_name),
        text |-> Slice(accessible_name, TextCap),
        aria_label |-> [present |-> HasAttr(element, "aria-label"),
                        value |-> AttrOr(element, "aria-label")],
        is_clickable |-> element.enabled /\ element.displayed,
        css_classes |-> Split(AttrOr(element, "class")),
        attributes |-> [id |-> AttrOr(element, "id"),
                        role |-> AttrOr(element, "role"),
                        type |-> AttrOr(element, "type")]]

\* the positions k..n in ascending order
Positions(k, n) == [j \in 1..(n - k + 1) |-> k + j - 1]

\* context.py 174-196: the elements kept by the first loop, from the k-th
\* node on; an element whose inspection raises (its index is in fail1) is
\* skipped
InteractiveElements(nodes, k, fail1) ==
    LET keep(p) == /\ p \notin fail1
                   /\ IsInteractive(nodes[p])
                   /\ nodes[p].displayed
                   /\ nodes[p].enabled
        pos == SelectSeq(Positions(k, Len(nodes)), keep)
    IN [j \in DOMAIN pos |-> nodes[pos[j]]]

\* the reference the second loop gives the element at 0-based position i
EnumRef(i) == Ref(i + 1)

\* context.py 199-229: the second loop over interactive_elements[:100],
\* from the 0-based position i on; an element whose inspection raises (its
\* 1-based position is in fail2) is skipped.  The keys e<i+1> are pairwise
\* distinct, so elements[ref] = element_info never overwrites an entry and
\* the dict keeps the descriptors in the order of the loop.
BuildElements(kept, i, fail2, elements) ==
    LET keep(p) == p \notin fail2
        pos == SelectSeq(Positions(i + 1, Len(kept)), keep)
    IN elements \o [j \in DOMAIN pos |-> ElementInfo(EnumRef(pos[j] - 1), kept[pos[j]])]

\* a capture that goes on with the elements after the page read failed
CapturedSnapshot_IgnoringPageFailure(page, failPage, fail1, fail2) ==
    PageSnapshot(
        BuildElements(Slice(InteractiveElements(page.nodes, 1, fail1), SnapshotCap),
                      0, fail2, <<>>),
        IF failPage THEN <<>> ELSE page.url, IF failPage THEN <<>> ELSE page.title)

\* context.py 160-235 after the browser was acquired: the snapshot stored
CapturedSnapshot(page, failPage, fail1, fail2) ==
    IF failPage THEN PageSnapshot(<<>>, <<>>, <<>>)
    ELSE PageSnapshot(
            BuildElements(Slice(InteractiveElements(page.nodes, 1, fail1), SnapshotCap),
                          0, fail2, <<>>),
            page.url, page.title)

(***************************************************************************)
(* PageSnapshot.ref_locator (context.py 41-78).                            *)
(***************************************************************************)
ByID == "id"
ByXPATH == "xpath"
ByCSS == "css selector"

\* a lookup that returns the first descriptor whatever the reference
Lookup_First(snapshot, ref) == snapshot.elements[1]

\* self.elements[ref]
Lookup(snapshot, ref) ==
    LET j == CHOOSE j \in DOMAIN snapshot.elements : snapshot.elements[j].ref = ref
    IN snapshot.elements[j]

HasRef(snapshot, ref) == \E j \in DOMAIN snapshot.elements : snapshot.elements[j].ref = ref

\* the selectors list with the text selector put before the id selector
Selectors_TextFirst(element_info) ==
    (IF element_info.text # <<>>
     THEN << [by |-> ByXPATH,
              value |-> <<"//">> \o element_info.tag_name \o <<"[contains(text(), \"">>
                        \o EscapeQuotes(element_info.text) \o <<"\")]">>] >>
     ELSE <<>>)
    \o (IF element_info.attributes.id # <<>>
        THEN << [by |-> ByID, value |-> element_info.attributes.id] >> ELSE <<>>)
    \o (IF element_info.attributes.role # <<>>
        THEN << [by |-> ByXPATH,
                 value |-> <<"//">> \o element_info.tag_name \o <<"[@role=\"">>
                           \o element_info.attributes.role \o <<"\"]">>] >>
        ELSE <<>>)
    \o (IF element_info.css_classes # <<>>
        THEN << [by |-> ByCSS,
                 value |-> element_info.tag_name \o <<".">>
                           \o Join(element_info.css_classes, <<".">>)] >>
        ELSE <<>>)

\* the selectors list of one descriptor, in the order the code appends them
Selectors(element_info) ==
    (IF element_info.attributes.id # <<>>
     THEN << [by |-> ByID, value |-> element_info.attributes.id] >> ELSE <<>>)
    \o (IF element_info.text # <<>>
        THEN << [by |-> ByXPATH,
                 value |-> <<"//">> \o element_info.tag_name \o <<"[contains(text(), \"">>
                           \o EscapeQuotes(element_info.text) \o <<"\")]">>] >>
        ELSE <<>>)
    \o (IF element_info.attributes.role # <<>>
        THEN << [by |-> ByXPATH,
                 value |-> <<"//">> \o element_info.tag_name \o <<"[@role=\"">>
                           \o element_info.attributes.role \o <<"\"]">>] >>
        ELSE <<>>)
    \o (IF element_info.css_classes # <<>>
        THEN << [by |-> ByCSS,
                 value |-> element_info.tag_name \o <<".">>
                           \o Join(element_info.css_classes, <<".">>)] >>
        ELSE <<>>)

\* a resolver that has no locator for an unknown reference
FallbackLocator_None(ref) == [by |-> "", value |-> <<>>]

\* return By.CSS_SELECTOR, f"[data-ref='{ref}']"
FallbackLocator(ref) == [by |-> ByCSS, value |-> <<"[data-ref='">> \o ref \o <<"']">>]

ref_locator(snapshot, ref) ==
    IF HasRef(snapshot, ref) /\ Selectors(Lookup(snapshot, ref)) # <<>>
    THEN Selectors(Lookup(snapshot, ref))[1]
    ELSE FallbackLocator(ref)

(***************************************************************************)
(* The site the browser is pointed at.  "blank" is the page of a fresh     *)
(* session; HomeUrl leads to a page with a button that has an id and a     *)
(* link that has none.                                                     *)
(***************************************************************************)
HomeUrl == <<"https://example.com">>

GoButton ==
    [tag_name |-> <<"BUTTON">>,
     attrs |-> [id |-> <<"g", "o">>],
     text |-> <<" ", "G", "o", " ">>, displayed |-> TRUE, enabled |-> TRUE]

MoreLink ==
    [tag_name |-> <<"a">>,
     attrs |-> [class |-> <<"B", "t", "n", " ", "x">>, role |-> <<"link">>],
     text |-> <<"M", "\"">>, displayed |-> TRUE, enabled |-> TRUE]

Paragraph ==
    [tag_name |-> <<"p">>, attrs |-> <<>>,
     text |-> <<"t">>, displayed |-> TRUE, enabled |-> TRUE]

\* a page whose markup carries a data-ref attribute of its own
TaggedUrl == <<"https://example.com/tagged">>

TaggedNode ==
    [tag_name |-> <<"span">>,
     attrs |-> [a \in {"data-ref"} |-> <<"e", "9">>],
     text |-> <<"t">>, displayed |-> TRUE, enabled |-> TRUE]

\* one of two buttons that share an id
Twin(text) ==
    [tag_name |-> <<"BUTTON">>,
     attrs |-> [id |-> <<"d", "u", "p">>],
     text |-> text, displayed |-> TRUE, enabled |-> TRUE]

\* the k-th node of a list page: a button with an id of its own; the
\* second is hidden and the fifth is disabled
ListNode(name, k) ==
    [tag_name |-> <<"BUTTON">>,
     attrs |-> [id |-> <<name, "-", ToString(k)>>],
     text |-> <<>>, displayed |-> (k # 2), enabled |-> (k # 5)]

\* a page of n buttons
ListPage(name, n) ==
    [url |-> <<"https://example.com/", name>>, title |-> <<name>>,
     nodes |-> [k \in 1..n |-> ListNode(name, k)]]

\* "short" has three qualifying nodes, "full" as many as the cap retains,
\* "over" MaxOver more
Page(l) ==
    CASE l = "home" -> [url |-> HomeUrl, title |-> <<"Example Domain">>,
                        nodes |-> <<GoButton, MoreLink, Paragraph>>]
      [] l = "tagged" -> [url |-> TaggedUrl, title |-> <<"Tagged">>,
                          nodes |-> <<GoButton, TaggedNode>>]
      [] l = "twins" -> [url |-> <<"https://example.com/twins">>, title |-> <<"Twins">>,
                         nodes |-> <<Twin(<<"x">>), GoButton, Twin(<<"y">>)>>]
      [] l = "short" -> ListPage("short", 4)
      [] l = "full" -> ListPage("full", SnapshotCap + 2)
      [] l = "over" -> ListPage("over", SnapshotCap + 2 + MaxOver)
      [] OTHER -> [url |-> <<"data:,">>, title |-> <<>>, nodes |-> <<>>]

LocOf(url) ==
    IF url = HomeUrl THEN "home" ELSE IF url = TaggedUrl THEN "tagged" ELSE "blank"

(***************************************************************************)
(* The context as a value, and operations as sets of outcomes              *)
(* [c: the context after, raised: whether an exception left the            *)
(* operation, exc: its message].                                           *)
(***************************************************************************)
Ctx == [driver |-> driver, loc |-> loc, snap |-> current_snapshot,
        hist |-> action_history, rec |-> recording_enabled]

Ok(c) == [c |-> c, raised |-> FALSE, exc |-> <<>>]
Raise(c, msg) == [c |-> c, raised |-> TRUE, exc |-> msg]

\* BrowserManager.ensure_browser (context.py 86-130): a live session is
\* returned as it is; a lost one is dropped and, like a missing one,
\* replaced by a new session, whose launch may fail twice and raise
ensure_browser(c) ==
    IF c.driver = "live" THEN {Ok(c)}
    ELSE {Ok([c EXCEPT !.driver = "live", !.loc = "blank"]),
          Raise([c EXCEPT !.driver = "none"], <<"session not created">>)}

\* a capture that merges the new descriptors into the snapshot it finds
StoreSnapshot_Merge(c, snapshot) ==
    [c EXCEPT !.snap = IF c.snap.exists
                       THEN [snapshot EXCEPT !.elements = c.snap.elements \o @]
                       ELSE snapshot]

\* self.current_snapshot = PageSnapshot(...) (context.py 231, 235)
StoreSnapshot(c, snapshot) == [c EXCEPT !.snap = snapshot]

\* Context.capture_snapshot when the page read fails (failPage), the
\* inspections at the positions fail1 of the first loop fail and those at
\* the positions fail2 of the second loop fail
capture_snapshot_with(c, failPage, fail1, fail2) ==
    {IF e.raised THEN e
     ELSE Ok(StoreSnapshot(e.c, CapturedSnapshot(Page(e.c.loc), failPage, fail1, fail2)))
     : e \in ensure_browser(c)}

\* Context.capture_snapshot (context.py 155-235)
capture_snapshot(c) ==
    UNION {
        IF e.raised THEN {e}
        ELSE LET page == Page(e.c.loc)
                 n1 == Len(page.nodes)
             IN UNION {
                  LET n2 == Len(InteractiveElements(page.nodes, 1, fail1))
                  IN {Ok(StoreSnapshot(e.c, CapturedSnapshot(page, failPage, fail1, fail2)))
                        : fail2 \in SUBSET (1..n2)}
                  : failPage \in BOOLEAN, fail1 \in SUBSET (1..n1)}
        : e \in ensure_browser(c)}

(***************************************************************************)
(* Tool schemas and parameter validation (tool_base.py 34-39).             *)
(***************************************************************************)
T_navigate == <<"navigate_to">>
T_capture == <<"capture_page">>
T_click == <<"click_element">>
T_start == <<"start_recording">>
T_stop == <<"stop_recording">>
T_clear == <<"clear_recording">>
T_generate == <<"generate_script">>
T_reset == <<"reset_automation_session">>
T_setup == <<"generator_setup_page">>
T_close == <<"close_session">>
T_back == <<"go_back">>
T_key == <<"key_press">>

Tools == {T_navigate, T_capture, T_click, T_start, T_stop, T_clear,
          T_generate, T_reset, T_setup}

\* the fields of a tool's input schema that have no default, in declaration order
RequiredFields(tool) ==
    CASE tool = T_navigate -> <<"url">>
      [] tool = T_click -> <<"element", "ref">>
      [] tool = T_generate -> <<"format">>
      [] tool = T_setup -> <<"url", "test_plan", "framework">>
      [] tool = T_key -> <<"key">>
      [] OTHER -> <<>>

\* the fields that have a default, with it
DefaultFields(tool) ==
    CASE tool = T_generate -> [test_name |-> <<"test_recorded_scenario">>,
                               filename |-> <<>>,
                               include_setup |-> <<"True">>]
      [] tool = T_key -> [modifiers |-> <<>>]
      [] OTHER -> <<>>

Range(seq) == {seq[i] : i \in DOMAIN seq}

MissingFields(tool, arguments) ==
    SelectSeq(RequiredFields(tool), LAMBDA f : f \notin DOMAIN arguments)

\* pydantic's lax conversion of a submitted value to the field's type
Coerce(tool, f, v) ==
    IF tool = T_generate /\ f = "include_setup"
    THEN (IF v \in {<<"true">>, <<"1">>, <<"yes">>} THEN <<"True">>
          ELSE IF v \in {<<"false">>, <<"0">>, <<"no">>} THEN <<"False">> ELSE v)
    ELSE v

\* a validation that fills an absent field with the empty string
validate_params_Lenient(tool, arguments) ==
    LET declared == Range(RequiredFields(tool)) \cup DOMAIN DefaultFields(tool)
    IN [raised |-> FALSE, exc |-> <<>>,
        params |-> [f \in declared |->
                       IF f \in DOMAIN arguments THEN Coerce(tool, f, arguments[f])
                       ELSE IF f \in DOMAIN DefaultFields(tool) THEN DefaultFields(tool)[f]
                       ELSE <<>>]]

\* ToolSchema.validate_params: the parsed parameters, or ValueError
validate_params(tool, arguments) ==
    LET missing == MissingFields(tool, arguments)
        declared == Range(RequiredFields(tool)) \cup DOMAIN DefaultFields(tool)
    IN IF missing # <<>>
       THEN [raised |-> TRUE,
             exc |-> <<"Invalid parameters for ">> \o tool \o <<": ">>
                     \o <<ToString(Len(missing)), " validation error">>
                     \o <<"\n">> \o missing \o <<"\n  Field required">>,
             params |-> <<>>]
       ELSE [raised |-> FALSE, exc |-> <<>>,
             params |-> [f \in declared |->
                            IF f \in DOMAIN arguments THEN Coerce(tool, f, arguments[f])
                            ELSE DefaultFields(tool)[f]]]

(***************************************************************************)
(* Recording (context.py 249-258) and the script generator                 *)
(* (script_generator_improved.py).                                         *)
(***************************************************************************)
\* the entry record_action builds; the timestamp is left out
HistoryEntry(tool_name, params) == [tool |-> tool_name, params |-> params]

\* Context.record_action
record_action(c, tool_name, params) ==
    IF c.rec THEN [c EXCEPT !.hist = Append(c.hist, HistoryEntry(tool_name, params))]
    ELSE c

META_TOOLS == {<<"capture_page">>, <<"generator_read_log">>, <<"generate_script">>,
               <<"start_recording">>, <<"stop_recording">>, <<"recording_status">>,
               <<"planner_setup_page">>, <<"planner_save_plan">>, <<"generator_setup_page">>}

SupportedFormats == {<<"pytest">>, <<"unittest">>, <<"selenium_python">>, <<"robot_framework">>}

\* a generator that filters nothing out
FilteredActions_All(hist) == hist

\* actions = [a for a in context.action_history if a['tool'] not in META_TOOLS]
FilteredActions(hist) == SelectSeq(hist, LAMBDA a : a.tool \notin META_TOOLS)

\* _action_to_selenium_code / _action_to_robot_framework: the block of
\* lines one action becomes; a tool the generator does not know becomes a
\* TODO comment.  Every block is non-empty, so no action is dropped.
ActionBlock(action, snap) ==
    [tool |-> action.tool,
     kind |-> IF action.tool \in {T_navigate, T_click}
                 /\ (action.tool = T_navigate => action.params["url"] # <<>>)
              THEN "code" ELSE "todo",
     locator |-> IF action.tool = T_click /\ snap.exists
                    /\ "ref" \in DOMAIN action.params /\ action.params["ref"] # <<>>
                 THEN ref_locator(snap, action.params["ref"])
                 ELSE [by |-> "", value |-> <<>>]]

\* the body of the generated script: one block per filtered action, in order
ScriptBlocks(actions, snap) == [i \in DOMAIN actions |-> ActionBlock(actions[i], snap)]

NoScript == [generated |-> FALSE, blocks |-> <<>>]

(***************************************************************************)
(* ToolResult (context.py 9-15) and the tools' handlers.  An outcome of a  *)
(* handler is [c, raised, exc, result].                                    *)
(***************************************************************************)
NoLocator == [by |-> "", value |-> <<>>]

ToolResult(code, has_action, capture) ==
    [code |-> code, has_action |-> has_action, capture_snapshot |-> capture,
     locator |-> NoLocator, script |-> NoScript]

NoResult == ToolResult(<<>>, FALSE, FALSE)

Handled(c, result) == [c |-> c, raised |-> FALSE, exc |-> <<>>, result |-> result]
HandlerRaised(c, msg) == [c |-> c, raised |-> TRUE, exc |-> msg, result |-> NoResult]

\* NavigateTool.handle (tools/navigate.py 34-70)
handle_navigate(c, params) ==
    IF Strip(params["url"]) = <<>>
    THEN {HandlerRaised(c, <<"URL parameter is required and cannot be empty">>)}
    ELSE {Handled(c, ToolResult(<< <<"# Navigate to ">> \o params["url"],
                                   <<"Go To    ">> \o params["url"] >>, TRUE, TRUE))}

\* SnapshotTool.handle (tools/snapshot.py 33-104)
handle_capture(c, params) ==
    {Handled(c, ToolResult(<< <<"# Capture page snapshot for element interaction">>,
                              <<"# This captures all interactive elements with references">> >>,
                           TRUE, FALSE))}

\* ClickTool.handle (tools/snapshot.py 117-161) with current_tab_or_die and
\* snapshot_or_die (context.py 237-247)
handle_click(c, params) ==
    IF c.driver = "none" THEN {HandlerRaised(c, <<"No browser session active">>)}
    ELSE IF ~c.snap.exists
    THEN {HandlerRaised(c, <<"No snapshot available - call capture_page first">>)}
    ELSE LET locator == ref_locator(c.snap, params["ref"])
         IN {Handled(c, [ToolResult(<< <<"# Click ">> \o params["element"],
                                       <<"Click Element    ">> \o locator.value >>,
                                    TRUE, TRUE)
                         EXCEPT !.locator = locator])}

\* a start_recording that keeps the history
handle_start_Keeping(c, params) ==
    {Handled([c EXCEPT !.rec = TRUE],
             ToolResult(<< <<"Recording started - all browser actions will be tracked">> >>,
                        FALSE, FALSE))}

\* StartRecordingTool.handle (tools/recording.py 35-43)
handle_start(c, params) ==
    {Handled([c EXCEPT !.rec = TRUE, !.hist = <<>>],
             ToolResult(<< <<"Recording started - all browser actions will be tracked">> >>,
                        FALSE, FALSE))}

\* a stop_recording that also empties the history
handle_stop_Clearing(c, params) ==
    {Handled([c EXCEPT !.rec = FALSE, !.hist = <<>>],
             ToolResult(<< <<"Recording stopped - captured ", ToString(Len(c.hist)), " actions">> >>,
                        FALSE, FALSE))}

\* StopRecordingTool.handle (tools/recording.py 56-64)
handle_stop(c, params) ==
    {Handled([c EXCEPT !.rec = FALSE],
             ToolResult(<< <<"Recording stopped - captured ", ToString(Len(c.hist)), " actions">> >>,
                        FALSE, FALSE))}

\* a clear_recording that also drops the session and the snapshot
handle_clear_Resetting(c, params) ==
    {Handled([c EXCEPT !.hist = <<>>, !.driver = "none", !.loc = "blank",
                       !.snap = NoSnapshot],
             ToolResult(<< <<"Cleared ", ToString(Len(c.hist)), " recorded actions">> >>,
                        FALSE, FALSE))}

\* ClearRecordingTool.handle (tools/recording.py 112-120)
handle_clear(c, params) ==
    {Handled([c EXCEPT !.hist = <<>>],
             ToolResult(<< <<"Cleared ", ToString(Len(c.hist)), " recorded actions">> >>,
                        FALSE, FALSE))}

\* ImprovedGenerateScriptTool.handle (tools/script_generator_improved.py 48-110)
handle_generate(c, params) ==
    LET filtered == FilteredActions(c.hist)
    IN IF c.hist = <<>>
       THEN {Handled(c, ToolResult(
                << <<"No actions recorded. Start recording first with start_recording tool.">> >>,
                FALSE, FALSE))}
       ELSE IF filtered = <<>>
       THEN {Handled(c, ToolResult(
                << <<"No testable actions recorded. Only meta-tools were used.">> >>,
                FALSE, FALSE))}
       ELSE IF Lower(params["format"]) \notin SupportedFormats
       THEN {Handled(c, ToolResult(
                << <<"Unsupported format: ">> \o params["format"] >>, FALSE, FALSE))}
       ELSE {Handled(c, [ToolResult(
                << <<"Generated ">> \o params["format"] \o <<" test script from ",
                     ToString(Len(filtered)), " recorded actions">>,
                   <<"   (Filtered out ", ToString(Len(c.hist) - Len(filtered)), " meta-tools)">>,
                   <<>>, <<"Generated code:">>, <<>>, <<"<script>">> >>, FALSE, FALSE)
                EXCEPT !.script = [generated |-> TRUE,
                                   blocks |-> ScriptBlocks(filtered, c.snap)]])}

\* ResetSessionTool.handle (tools/reset_session.py 26-80)
handle_reset(c, params) ==
    {Handled(c, ToolResult(<< <<"# Force reset automation browser session only">>,
                              <<"# This kills only automation Chrome/ChromeDriver processes">> >>,
                           TRUE, FALSE))}

\* GeneratorSetupTool.handle (tools/agents.py 1006-1051)
handle_setup(c, params) ==
    {Handled(c, ToolResult(<< <<"# Initialize test generation session">>,
                              <<"# Target URL: ">> \o params["url"],
                              <<"# Framework: ">> \o params["framework"],
                              <<"# Action recording: ENABLED">> >>, TRUE, TRUE))}

\* CloseTool.handle (tools/common.py 26-43)
handle_close(c, params) ==
    {Handled(c, ToolResult(<< <<"# Close browser">>, <<"Close Browser">> >>, TRUE, FALSE))}

\* GoBackTool.handle (tools/navigate.py 83-103)
handle_back(c, params) ==
    {Handled(c, ToolResult(<< <<"# Go back to previous page">>, <<"Go Back">> >>, TRUE, TRUE))}

\* KeyPressTool.handle (tools/keys.py 27-110) with current_tab_or_die
handle_key(c, params) ==
    IF c.driver = "none" THEN {HandlerRaised(c, <<"No browser session active">>)}
    ELSE {Handled(c, ToolResult(
              << <<"# Press key: ">> \o params["modifiers"] \o params["key"],
                 <<"Press Keys    None    ">> \o params["modifiers"] \o params["key"] >>,
              TRUE, TRUE))}

\* tool.handle(self, params)
handle(tool, c, params) ==
    CASE tool = T_navigate -> handle_navigate(c, params)
      [] tool = T_capture -> handle_capture(c, params)
      [] tool = T_click -> handle_click(c, params)
      [] tool = T_start -> handle_start(c, params)
      [] tool = T_stop -> handle_stop(c, params)
      [] tool = T_clear -> handle_clear(c, params)
      [] tool = T_generate -> handle_generate(c, params)
      [] tool = T_reset -> handle_reset(c, params)
      [] tool = T_setup -> handle_setup(c, params)
      [] tool = T_close -> handle_close(c, params)
      [] tool = T_back -> handle_back(c, params)
      [] tool = T_key -> handle_key(c, params)

(***************************************************************************)
(* The deferred actions.  An outcome is [c, raised, exc].                  *)
(***************************************************************************)
\* the message of the page-load timeout that navigate_action catches
PageLoadTimeout == <<"timeout: Timed out receiving message from renderer">>

\* an action that caught the exception msg and returned
Halted(c, msg) == [c |-> c, raised |-> FALSE, exc |-> msg]

\* navigate_action (tools/navigate.py 45-57): a failing driver.get is
\* answered by window.stop(), which may fail too; after a halted load the
\* browser shows the page or nothing of it
navigate_action(c, params) ==
    UNION {
        IF e.raised THEN {e}
        ELSE {Ok([e.c EXCEPT !.loc = LocOf(params["url"])]),
              Halted([e.c EXCEPT !.loc = LocOf(params["url"])], PageLoadTimeout),
              Halted([e.c EXCEPT !.loc = "blank"], PageLoadTimeout),
              Raise(e.c, <<"script timeout">>)}
        : e \in ensure_browser(c)}

\* snapshot_action (tools/snapshot.py 36-91)
snapshot_action(c, params) ==
    UNION {IF e.raised THEN {e} ELSE capture_snapshot(e.c) : e \in ensure_browser(c)}

\* whether an element of the page l carries the attribute data-ref with
\* the value that the selector [data-ref='...'] asks for
PageHasDataRef(l, selector) ==
    \E i \in DOMAIN Page(l).nodes :
        /\ HasAttr(Page(l).nodes[i], "data-ref")
        /\ selector = <<"[data-ref='">> \o Page(l).nodes[i].attrs["data-ref"] \o <<"']">>

\* driver.find_element(by, value) on the live page: by id it finds an
\* element exactly when one carries the id, by a data-ref selector exactly
\* when one carries the attribute; another XPath or CSS locator may or may
\* not match
FindsElement(c, locator) ==
    IF c.driver # "live" THEN {FALSE}
    ELSE IF locator.by = ByID
    THEN {\E i \in DOMAIN Page(c.loc).nodes : AttrOr(Page(c.loc).nodes[i], "id") = locator.value}
    ELSE IF locator.value # <<>> /\ Head(locator.value) = "[data-ref='"
    THEN {PageHasDataRef(c.loc, locator.value)}
    ELSE BOOLEAN

\* the positions of the nodes that driver.find_element(by, value) may
\* return on the page, 0 for NoSuchElementException: by id the first node
\* in document order that carries the id
find_element(page, locator) ==
    LET byId == {i \in DOMAIN page.nodes : AttrOr(page.nodes[i], "id") = locator.value}
        byDataRef == {i \in DOMAIN page.nodes :
                         /\ HasAttr(page.nodes[i], "data-ref")
                         /\ locator.value = <<"[data-ref='">> \o page.nodes[i].attrs["data-ref"]
                                               \o <<"']">>}
        First(S) == IF S = {} THEN {0} ELSE {CHOOSE i \in S : \A j \in S : i <= j}
    IN IF locator.by = ByID THEN First(byId)
       ELSE IF locator.value # <<>> /\ Head(locator.value) = "[data-ref='" THEN First(byDataRef)
       ELSE 0..Len(page.nodes)

\* an outcome with the driver calls that the action made, in order
Traced(o, trace) == [c |-> o.c, raised |-> o.raised, exc |-> o.exc, trace |-> trace]

\* element.click() (tools/snapshot.py 135): it clicks, or the element is
\* covered or cannot be interacted with
element_click(c) ==
    {Ok(c), Raise(c, <<"element click intercepted">>),
     Raise(c, <<"element not interactable">>)}

\* driver.execute_script("arguments[0].click();", element)
\* (tools/snapshot.py 144)
js_click(c) == {Ok(c), Raise(c, <<"javascript error">>)}

\* a fallback that lets the error of the JavaScript click out
click_fallback_RaisingJsError(c, selenium_error) ==
    {Traced(j, <<"find_element", "click", "execute_script">>) : j \in js_click(c)}

\* the except clause of the standard click (tools/snapshot.py 137-148):
\* one JavaScript click; when it raises too the first error is raised
click_fallback(c, selenium_error) ==
    {Traced(IF j.raised THEN Raise(c, selenium_error.exc) ELSE j,
            <<"find_element", "click", "execute_script">>) : j \in js_click(c)}

\* a click that does nothing when the element is not found
click_action_Silent(c, locator) ==
    IF c.driver # "live" THEN {Raise(c, <<"invalid session id">>)}
    ELSE {Ok(c)}

\* click_action (tools/snapshot.py 130-148): the lookup, the standard
\* click, then the fallback; a lost session fails the lookup
click_action(c, locator) ==
    IF c.driver # "live"
    THEN {Traced(Raise(c, <<"invalid session id">>), <<"find_element">>)}
    ELSE UNION {
        IF ~found
        THEN {Traced(Raise(c, <<"no such element: ">> \o locator.value), <<"find_element">>)}
        ELSE UNION {IF s.raised THEN click_fallback(c, s)
                    ELSE {Traced(s, <<"find_element", "click">>)}
                    : s \in element_click(c)}
        : found \in FindsElement(c, locator)}

\* a reset that leaves the history and the recording flag
reset_action_KeepingRecording(c, params) ==
    {Ok([c EXCEPT !.driver = "none", !.loc = "blank", !.snap = NoSnapshot])}

\* reset_action (tools/reset_session.py 29-69)
reset_action(c, params) ==
    {Ok([c EXCEPT !.driver = "none", !.loc = "blank", !.snap = NoSnapshot,
                  !.hist = <<>>, !.rec = FALSE])}

\* setup_action (tools/agents.py 1008-1037); the session may be lost
\* between driver.get and the capture
setup_action(c, params) ==
    UNION {
        IF e.raised THEN {e}
        ELSE {Raise(e.c, <<"net::ERR_NAME_NOT_RESOLVED">>)}
             \cup UNION {
                    capture_snapshot([e.c EXCEPT !.loc = LocOf(params["url"]),
                                                 !.rec = TRUE, !.hist = <<>>,
                                                 !.driver = IF lost THEN "dead" ELSE "live"])
                    : lost \in BOOLEAN}
        : e \in ensure_browser(c)}

\* BrowserManager.close_browser (context.py 132-137): quit and
\* driver = None; the quit of a lost session may raise, and the handle
\* then stays
close_browser(c) ==
    IF c.driver = "none" THEN {Ok(c)}
    ELSE {Ok([c EXCEPT !.driver = "none", !.loc = "blank"])}
         \cup (IF c.driver = "dead" THEN {Raise(c, <<"invalid session id">>)} ELSE {})

\* a close that also drops the snapshot
Context_close_Dropping(c) ==
    {[e EXCEPT !.c.snap = NoSnapshot] : e \in close_browser(c)}

\* Context.close (context.py 334-336)
Context_close(c) == close_browser(c)

\* close_action (tools/common.py 29-31)
close_action(c, params) == Context_close(c)

\* the pages a session may have been on
SessionPages == {"blank", "home", "tagged"}

\* back_action (tools/navigate.py 87-90): current_tab_or_die, driver.back()
back_action(c, params) ==
    IF c.driver = "none" THEN {Raise(c, <<"No browser session active">>)}
    ELSE IF c.driver = "dead" THEN {Raise(c, <<"invalid session id">>)}
    ELSE {Ok([c EXCEPT !.loc = l]) : l \in SessionPages}

\* key_action (tools/keys.py 31-98): actions.perform() on the driver the
\* handler took
key_action(c, params) ==
    IF c.driver # "live" THEN {Raise(c, <<"invalid session id">>)} ELSE {Ok(c)}

\* result.action()
action(tool, c, params, result) ==
    CASE tool = T_navigate -> navigate_action(c, params)
      [] tool = T_capture -> snapshot_action(c, params)
      [] tool = T_click -> click_action(c, result.locator)
      [] tool = T_reset -> reset_action(c, params)
      [] tool = T_setup -> setup_action(c, params)
      [] tool = T_close -> close_action(c, params)
      [] tool = T_back -> back_action(c, params)
      [] tool = T_key -> key_action(c, params)

(***************************************************************************)
(* Context.run_tool (context.py 260-332).                                  *)
(***************************************************************************)
\* one line of the rendering (context.py 301-312)
ElementLine(element) ==
    <<"- ">> \o element.tag_name
    \o (IF element.text # <<>> THEN <<" \"">> \o element.text \o <<"\"">> ELSE <<>>)
    \o <<" ">>
    \o Join(<< <<"[ref=">> \o element.ref \o <<"]">> >>
            \o (IF element.attributes.role # <<>>
                THEN << <<"[role=">> \o element.attributes.role \o <<"]">> >> ELSE <<>>)
            \o (IF ~element.is_clickable THEN << <<"[disabled]">> >> ELSE <<>>),
            <<" ">>)

\* the response_lines of a call whose action ran (context.py 281-314);
\* "[fence]" stands for the three backquotes of a fenced block
ResponseLines(result, snap) ==
    << <<"### Ran Selenium automation">>, <<"[fence]python">> >>
    \o result.code
    \o << <<"[fence]">> >>
    \o (IF result.capture_snapshot /\ snap.exists
        THEN << <<>>, <<"### Page state">>,
                <<"- ", "Page URL: ">> \o snap.url,
                <<"- ", "Page Title: ">> \o snap.title,
                <<"- Page Snapshot:">>, <<"[fence]yaml">> >>
             \o [i \in DOMAIN snap.elements |-> ElementLine(snap.elements[i])]
             \o << <<"[fence]">> >>
        ELSE <<>>)

\* one line of capture_page's own rendering (tools/snapshot.py 56-82)
YamlLine(element) ==
    ElementLine(element)
    \o (IF element.tag_name = <<"h1">> THEN <<" ", "[level=1]">>
        ELSE IF element.tag_name = <<"h2">> THEN <<" ", "[level=2]">>
        ELSE IF element.tag_name = <<"h3">> THEN <<" ", "[level=3]">>
        ELSE <<>>)

\* what snapshot_action returns (tools/snapshot.py 43-91)
SnapshotRendering(snap) ==
    IF snap.exists
    THEN [snapshot |-> Join(<< <<"### Page state">>,
                               <<"- ", "Page URL: ">> \o snap.url,
                               <<"- ", "Page Title: ">> \o snap.title,
                               <<"- Page Snapshot:">>, <<"[fence]yaml">> >>
                            \o [i \in DOMAIN snap.elements |-> YamlLine(snap.elements[i])]
                            \o << <<"[fence]">> >>, <<"\n">>)]
    ELSE [error |-> <<"Snapshot capture failed">>]

\* Python's None
None == <<>>

\* what await result.action() returned: the rendering for capture_page,
\* None for the actions that return nothing
action_result(tool, snap) ==
    IF tool = T_capture THEN SnapshotRendering(snap)
    ELSE IF tool = T_reset
    THEN [status |-> <<"Automation session reset complete - personal Chrome untouched">>]
    ELSE None

\* the dict returned after the action ran (context.py 316-320)
ActionResponse(tool, result, snap) ==
    [text |-> Join(ResponseLines(result, snap), <<"\n">>),
     code |-> result.code,
     action_result |-> action_result(tool, snap)]

\* the server's handler (server.py 63-77): the client is sent the text
ClientText(r) == r.text

\* the dict returned for a result without an action (context.py 322-325)
PreparedResponse(tool, result) ==
    [text |-> <<"OK ">> \o tool \o <<" prepared">>, code |-> result.code]

\* the except clause (context.py 327-332)
FailureResponse(tool, exc) ==
    [text |-> <<"FAILED ">> \o tool \o <<" failed: ">> \o exc, error |-> exc]

NoResponse == <<>>

\* the call in flight; rec0 and hist0 are the recording flag and the history
\* when it began, closed0 whether the session was then released by a close, steps the stages of run_tool it went through, exc the
\* message of the exception raised in it, trace the driver calls of its action
NoCall == [tool |-> <<>>, arguments |-> <<>>, params |-> <<>>, result |-> NoResult,
           rec0 |-> FALSE, hist0 |-> <<>>, steps |-> {}, exc |-> <<>>,
           closed0 |-> FALSE, trace |-> <<>>]

\* a run_tool without the except clause: the exception leaves the call
Escaped(tool, exc) == [pc |-> "escaped", response |-> NoResponse]

\* what the call in flight leaves behind when its exception reaches the
\* except clause of run_tool
Caught(tool, exc) == [pc |-> "done", response |-> FailureResponse(tool, exc)]

\* the arguments a caller submits
ArgumentSets(tool) ==
    CASE tool = T_navigate -> {[url |-> HomeUrl], <<>>}
      [] tool = T_click -> {[element |-> <<"Go">>, ref |-> Ref(1)], [element |-> <<"Go">>]}
      [] tool = T_generate -> {[format |-> <<"pytest">>], [format |-> <<"bogus">>], <<>>}
      [] tool = T_setup -> {[url |-> HomeUrl, test_plan |-> <<"plan">>,
                             framework |-> <<"pytest">>]}
      [] OTHER -> {<<>>}

SetCtx(c) ==
    /\ driver' = c.driver
    /\ loc' = c.loc
    /\ current_snapshot' = c.snap
    /\ action_history' = c.hist
    /\ recording_enabled' = c.rec

CtxVars == <<driver, loc, current_snapshot, action_history, recording_enabled>>

\* a run_tool that records the validated parameters
RecordedParams(cl) == cl.params

\* the arguments run_tool hands to record_action (context.py 267)
RecordedArguments(cl) == cl.arguments

\* no ref_locator call yet; before is the snapshot the call found
NoResolved == [ref |-> <<>>, locator |-> NoLocator, called |-> FALSE, before |-> NoSnapshot]

\* no capture_snapshot call was made on its own yet
\* Context.close has not run
NoClose == [now |-> FALSE, nocapture |-> FALSE]

\* the close ghost after an outcome o of a step of the call of tool;
\* stored tells whether the step stored a snapshot
ClosedAfter(tool, o, stored) ==
    [now |-> IF o.c.driver # "none" THEN FALSE
             ELSE IF tool = T_close /\ ~o.raised /\ driver # "none" THEN TRUE
             ELSE closed.now,
     nocapture |-> IF tool = T_close /\ ~o.raised THEN TRUE
                   ELSE IF stored THEN FALSE ELSE closed.nocapture]

NoCapture ==
    [done |-> FALSE, loc |-> "blank", failPage |-> FALSE, fail1 |-> {}, fail2 |-> {},
     raised |-> FALSE, before |-> NoSnapshot,
     prior |-> [done |-> FALSE, loc |-> "blank", clean |-> FALSE]]

\* the planner has not explored: no links, and no href navigated to
NoExploration == [links |-> <<>>, i |-> 1, visited |-> {}, navigated |-> <<>>, attempts |-> 0]

\* no tab operation was made yet
NoTabOp == [op |-> "none", raised |-> FALSE, target |-> 0, current |-> 0, before |-> <<>>]

\* a session with its first window, which has the focus
OneTab == [handles |-> <<1>>, focus |-> 1, next |-> 2, last |-> NoTabOp]

\* the second client's request has not been submitted; the first runs
NoParked == [task |-> 2, pc |-> "idle", call |-> NoCall, response |-> NoResponse]

Init ==
    /\ driver = "none"
    /\ loc = "blank"
    /\ current_snapshot = NoSnapshot
    /\ action_history = <<>>
    /\ recording_enabled = FALSE
    /\ pc = "idle"
    /\ call = NoCall
    /\ response = NoResponse
    /\ resolved = NoResolved
    /\ invoked = [on |-> FALSE, calls |-> <<>>]
    /\ captured = NoCapture
    /\ closed = NoClose
    /\ parked = NoParked
    /\ tabs = OneTab
    /\ explore = NoExploration

\* the tools that end or empty a recording: a history of MaxHistory
\* entries takes one generate_script more, and then only these
ClosingTools == {T_start, T_stop, T_clear, T_reset}

\* the messages with which an action ends whose driver.get failed: the
\* timeout it caught, or the failure of window.stop()
GetFailed == {PageLoadTimeout, <<"script timeout">>}

\* run_tool is entered, validates the arguments and records the call
\* (context.py 260-267)
RunTool(tool, arguments) ==
    /\ pc = "idle"
    /\ (recording_enabled /\ Len(action_history) >= MaxHistory)
           => tool \in ClosingTools \cup {T_generate}
    /\ (recording_enabled /\ Len(action_history) > MaxHistory) => tool \in ClosingTools
    /\ LET v == validate_params(tool, arguments)
           cl == [NoCall EXCEPT !.tool = tool, !.arguments = arguments,
                                !.params = v.params,
                                !.rec0 = recording_enabled,
                                !.hist0 = action_history,
                                !.closed0 = closed.now,
                                !.exc = v.exc]
           r == IF v.raised THEN Caught(tool, v.exc)
                ELSE [pc |-> "recorded", response |-> NoResponse]
       IN /\ pc' = r.pc
          /\ response' = r.response
          /\ call' = cl
          /\ SetCtx(IF v.raised THEN Ctx
                    ELSE record_action(Ctx, tool, RecordedArguments(cl)))
    /\ invoked' = LET v == validate_params(tool, arguments) IN
                  IF invoked.on /\ Len(invoked.calls) <= MaxHistory
                  THEN [invoked EXCEPT !.calls = Append(@, [tool |-> tool, ok |-> ~v.raised])]
                  ELSE [on |-> FALSE, calls |-> <<>>]
    /\ UNCHANGED <<resolved, captured, closed, parked, tabs, explore>>

\* result = await tool.handle(self, params) (context.py 270), and the
\* return for a result without an action (context.py 321-325)
Handle ==
    /\ pc = "recorded"
    /\ \E o \in handle(call.tool, Ctx, call.params) :
          LET r == IF o.raised THEN Caught(call.tool, o.exc)
                   ELSE IF ~o.result.has_action
                   THEN [pc |-> "done", response |-> PreparedResponse(call.tool, o.result)]
                   ELSE [pc |-> "handled", response |-> NoResponse]
          IN /\ SetCtx(o.c)
             /\ pc' = r.pc
             /\ response' = r.response
             /\ call' = [call EXCEPT !.result = o.result, !.steps = @ \cup {"handle"},
                                      !.exc = o.exc]
    /\ invoked' = IF call.tool = T_start THEN [on |-> TRUE, calls |-> <<>>] ELSE invoked
    /\ UNCHANGED <<resolved, captured, closed, parked, tabs, explore>>

\* action_result = await result.action() (context.py 273-274), and the
\* response of a result that asks for no capture (context.py 281-320)
Action ==
    /\ pc = "handled"
    /\ \E o \in action(call.tool, Ctx, call.params, call.result) :
          LET r == IF o.raised THEN Caught(call.tool, o.exc)
                   ELSE IF call.result.capture_snapshot
                   THEN [pc |-> "acted", response |-> NoResponse]
                   ELSE [pc |-> "done", response |-> ActionResponse(call.tool, call.result, o.c.snap)]
          IN /\ SetCtx(o.c)
             /\ pc' = r.pc
             /\ response' = r.response
             /\ call' = [call EXCEPT !.exc = o.exc,
                                      !.trace = IF "trace" \in DOMAIN o THEN o.trace ELSE <<>>,
                                      !.steps = @ \cup (IF o.raised THEN {"action"}
                                                        ELSE {"action", "action_ok"})
                                                   \cup (IF o.exc \in GetFailed
                                                         THEN {"timeout"} ELSE {})]
             /\ closed' = ClosedAfter(call.tool, o,
                                      ~o.raised /\ call.tool \in {T_capture, T_setup})
    /\ UNCHANGED <<resolved, invoked, captured, parked, tabs, explore>>

\* await self.capture_snapshot() and the response (context.py 277-320)
Capture ==
    /\ pc = "acted"
    /\ \E o \in capture_snapshot(Ctx) :
          LET r == IF o.raised THEN Caught(call.tool, o.exc)
                   ELSE [pc |-> "done", response |-> ActionResponse(call.tool, call.result, o.c.snap)]
          IN /\ SetCtx(o.c)
             /\ pc' = r.pc
             /\ response' = r.response
             /\ call' = [call EXCEPT !.exc = o.exc, !.steps = @ \cup {"capture"}]
             /\ closed' = ClosedAfter(call.tool, o, ~o.raised)
    /\ UNCHANGED <<resolved, invoked, captured, parked, tabs, explore>>

\* the caller has the response; the context waits for the next call
Return ==
    /\ pc = "done"
    /\ pc' = "idle"
    /\ call' = NoCall
    /\ response' = NoResponse
    /\ UNCHANGED <<CtxVars, resolved, invoked, captured, closed, parked, tabs, explore>>

\* the browser session is lost (the window is closed, the browser dies)
BrowserCrash ==
    /\ pc \in {"idle", "acted"}
    /\ driver = "live"
    /\ driver' = "dead"
    /\ loc' = "blank"
    /\ UNCHANGED <<current_snapshot, action_history, recording_enabled,
                   pc, call, response, resolved, invoked, captured, closed, parked, tabs, explore>>

Invoke == \E tool \in Tools : \E arguments \in ArgumentSets(tool) : RunTool(tool, arguments)

Next == Invoke \/ Handle \/ Action \/ Capture \/ Return \/ BrowserCrash

Spec == Init /\ [][Next]_vars

(***************************************************************************)
(* The session's life: the tools that open, use and close the browser      *)
(* session, on a context that records nothing.                             *)
(***************************************************************************)
SessionTools == {T_navigate, T_capture, T_click, T_close, T_back, T_key}

\* a reference that no snapshot of these pages holds
UnknownRef == Ref(9)

SessionArguments(tool) ==
    CASE tool = T_navigate -> {[url |-> HomeUrl], [url |-> TaggedUrl]}
      [] tool = T_click -> {[element |-> <<"Go">>, ref |-> Ref(1)],
                            [element |-> <<"Go">>, ref |-> UnknownRef]}
      [] tool = T_key -> {[key |-> <<"Enter">>]}
      [] OTHER -> {<<>>}

InvokeSession ==
    \E tool \in SessionTools : \E arguments \in SessionArguments(tool) :
        RunTool(tool, arguments)

NextSession == InvokeSession \/ Handle \/ Action \/ Capture \/ Return \/ BrowserCrash

SpecSession == Init /\ [][NextSession]_vars

(***************************************************************************)
(* Two clients' requests on the server's event loop (server.py 63-77,      *)
(* 100-102): each request is a task that awaits run_tool, and the loop     *)
(* gives the context to the other task when the running one is not in a    *)
(* call or waits at a suspension point.                                    *)
(***************************************************************************)
\* a run_tool that waits for the browser's answers on the event loop
SuspensionPoints_AtBrowserCalls == {"handled", "acted"}

\* the positions of run_tool at which the coroutine gives control back to
\* the event loop: none, as every await of run_tool (context.py 270, 274,
\* 278) is on a coroutine of this package that only makes blocking calls
SuspensionPoints == {}

\* the event loop runs the other task
Switch ==
    /\ pc \in {"idle"} \cup SuspensionPoints
    /\ parked' = [task |-> 3 - parked.task, pc |-> pc, call |-> call,
                  response |-> response]
    /\ pc' = parked.pc
    /\ call' = parked.call
    /\ response' = parked.response
    /\ UNCHANGED <<CtxVars, resolved, invoked, captured, closed, tabs, explore>>

NextConcurrent ==
    InvokeSession \/ Handle \/ Action \/ Capture \/ Return \/ BrowserCrash \/ Switch

SpecConcurrent == Init /\ [][NextConcurrent]_vars

(***************************************************************************)
(* The session's windows and the deferred actions of the tab tools         *)
(* (tools/tabs.py).  tab_id is the 0-based position in window_handles.     *)
(***************************************************************************)
\* the windows left when the window h is closed
Remaining(handles, h) == SelectSeq(handles, LAMBDA x : x # h)

\* driver.current_window_handle and execute_script need the focused window
\* to be open
FocusOpen(t) == t.focus \in Range(t.handles)

TabOp(op, raised, target, t) ==
    [op |-> op, raised |-> raised, target |-> target, current |-> t.focus,
     before |-> t.handles]

\* new_tab_action (tools/tabs.py 122-131): window.open and the switch to
\* the last handle
new_tab_action(t) ==
    IF ~FocusOpen(t) THEN [t EXCEPT !.last = TabOp("new", TRUE, 0, t)]
    ELSE [handles |-> Append(t.handles, t.next), focus |-> t.next,
          next |-> t.next + 1, last |-> TabOp("new", FALSE, t.next, t)]

\* select_action (tools/tabs.py 86-94)
select_action(t, tab_id) ==
    IF 0 <= tab_id /\ tab_id < Len(t.handles)
    THEN [t EXCEPT !.focus = t.handles[tab_id + 1],
                   !.last = TabOp("select", FALSE, t.handles[tab_id + 1], t)]
    ELSE [t EXCEPT !.last = TabOp("select", TRUE, 0, t)]

\* close_action (tools/tabs.py 166-185): the switch to the target, its
\* close, and a switch to the first remaining window only when the target
\* was the current one
tab_close_action(t, tab_id) ==
    IF 0 <= tab_id /\ tab_id < Len(t.handles)
    THEN IF ~FocusOpen(t) THEN [t EXCEPT !.last = TabOp("close", TRUE, 0, t)]
         ELSE LET target_handle == t.handles[tab_id + 1]
                  remaining_handles == Remaining(t.handles, target_handle)
              IN [t EXCEPT !.handles = remaining_handles,
                           !.focus = IF remaining_handles # <<>> /\ target_handle = t.focus
                                     THEN remaining_handles[1] ELSE target_handle,
                           !.last = TabOp("close", FALSE, target_handle, t)]
    ELSE [t EXCEPT !.last = TabOp("close", TRUE, 0, t)]

TabVarsUnchanged ==
    UNCHANGED <<CtxVars, pc, call, response, resolved, invoked, captured, closed, parked,
                explore>>

TabNew ==
    /\ Len(tabs.handles) < MaxTabs
    /\ tabs.next <= MaxHandle
    /\ tabs' = new_tab_action(tabs)
    /\ TabVarsUnchanged

TabSelect(tab_id) ==
    /\ tabs' = select_action(tabs, tab_id)
    /\ TabVarsUnchanged

TabClose(tab_id) ==
    /\ tabs' = tab_close_action(tabs, tab_id)
    /\ TabVarsUnchanged

\* the tab ids a caller submits: the positions, and one past the last
NextTabs ==
    \/ TabNew
    \/ \E tab_id \in 0..MaxTabs : TabSelect(tab_id)
    \/ \E tab_id \in 0..MaxTabs : TabClose(tab_id)

InitTabs ==
    /\ driver = "live"
    /\ loc = "blank"
    /\ current_snapshot = NoSnapshot
    /\ action_history = <<>>
    /\ recording_enabled = FALSE
    /\ pc = "idle"
    /\ call = NoCall
    /\ response = NoResponse
    /\ resolved = NoResolved
    /\ invoked = [on |-> FALSE, calls |-> <<>>]
    /\ captured = NoCapture
    /\ closed = NoClose
    /\ parked = NoParked
    /\ tabs = OneTab
    /\ explore = NoExploration

SpecTabs == InitTabs /\ [][NextTabs]_vars

(***************************************************************************)
(* The planner's autonomous exploration (tools/agents.py 185-220,          *)
(* 313-395): the links found on the home page, and the loop over them.     *)
(***************************************************************************)
HomeHref == <<"https://example.com/">>
Hrefs == {HomeHref, <<"https://example.com/a">>, <<"https://example.com/b">>}
LinkTexts == {<<"Shop">>, <<"More">>}

\* the anchors the selectors find, in document order
AnchorLists ==
    UNION {[1..n -> [text : LinkTexts, href : Hrefs]] : n \in 0..MaxLinks}

\* the dedup of _discover_navigation_links (agents.py 208-217): the first
\* of the links that agree in text and href
unique_links(links) ==
    LET pos == SelectSeq([j \in DOMAIN links |-> j],
                         LAMBDA j : \A k \in 1..(j - 1) : links[k] # links[j])
    IN [j \in DOMAIN pos |-> links[pos[j]]]

InitExplore ==
    /\ driver = "live"
    /\ loc = "blank"
    /\ current_snapshot = NoSnapshot
    /\ action_history = <<>>
    /\ recording_enabled = FALSE
    /\ pc = "idle"
    /\ call = NoCall
    /\ response = NoResponse
    /\ resolved = NoResolved
    /\ invoked = [on |-> FALSE, calls |-> <<>>]
    /\ captured = NoCapture
    /\ closed = NoClose
    /\ parked = NoParked
    /\ tabs = OneTab
    /\ \E anchors \in AnchorLists :
          explore = [links |-> unique_links(anchors), i |-> 1,
                     visited |-> {HomeHref},
                     navigated |-> [h \in Hrefs |-> 0], attempts |-> 0]

ExploreVarsUnchanged ==
    UNCHANGED <<CtxVars, pc, call, response, resolved, invoked, captured, closed, parked,
                tabs>>

\* one pass of the loop for a link whose href is in visited_urls
\* (agents.py 359-361)
SkipVisited ==
    /\ explore.i <= Len(explore.links)
    /\ explore.links[explore.i].href \in explore.visited
    /\ explore' = [explore EXCEPT !.i = @ + 1]
    /\ ExploreVarsUnchanged

\* one pass of the loop for another link (agents.py 363-393): driver.get,
\* and, unless it, the capture or the page's inspection raises, the href
\* joins visited_urls
ExploreLink(raises) ==
    /\ explore.i <= Len(explore.links)
    /\ explore.links[explore.i].href \notin explore.visited
    /\ LET href == explore.links[explore.i].href
       IN explore' = [explore EXCEPT
                         !.i = @ + 1,
                         !.navigated[href] = @ + 1,
                         !.attempts = @ + 1,
                         !.visited = IF raises THEN @ ELSE @ \cup {href}]
    /\ ExploreVarsUnchanged

NextExplore == SkipVisited \/ \E raises \in BOOLEAN : ExploreLink(raises)

SpecExplore == InitExplore /\ [][NextExplore]_vars

(***************************************************************************)
(* The resolver on its own: a snapshot captured from a one-element page,   *)
(* for every combination of id, role, class and text, and ref_locator      *)
(* applied to a reference.                                                 *)
(***************************************************************************)
AttrValue(a) ==
    CASE a = "id" -> <<"g", "o">>
      [] a = "role" -> <<"link">>
      [] a = "class" -> <<"B", "t", "n", " ", "x">>

NodeSpace ==
    {[tag_name |-> t, attrs |-> [a \in S |-> AttrValue(a)], text |-> x,
      displayed |-> TRUE, enabled |-> TRUE] :
        t \in {<<"BUTTON">>, <<"a">>, <<"H2">>, <<"h4">>},
        S \in SUBSET {"id", "role", "class"},
        x \in {<<>>, <<" ", "G", "o">>, <<"M", "\"">>}}

InitResolve ==
    /\ driver = "live"
    /\ loc = "home"
    /\ \E n \in NodeSpace :
          current_snapshot =
              CapturedSnapshot([url |-> HomeUrl, title |-> <<>>, nodes |-> <<n>>],
                               FALSE, {}, {})
    /\ action_history = <<>>
    /\ recording_enabled = FALSE
    /\ pc = "idle"
    /\ call = NoCall
    /\ response = NoResponse
    /\ resolved = NoResolved
    /\ invoked = [on |-> FALSE, calls |-> <<>>]
    /\ captured = NoCapture
    /\ closed = NoClose
    /\ parked = NoParked
    /\ tabs = OneTab
    /\ explore = NoExploration

\* snapshot.ref_locator(ref)
Resolve(ref) ==
    /\ current_snapshot.exists
    /\ resolved' = [ref |-> ref, locator |-> ref_locator(current_snapshot, ref),
                    called |-> TRUE, before |-> current_snapshot]
    /\ UNCHANGED <<driver, loc, current_snapshot, action_history, recording_enabled,
                   pc, call, response, invoked, captured, closed, parked, tabs, explore>>

\* strings that are no reference of any snapshot: the empty string, a word
OtherRefs == {<<>>, <<"s", "u", "b", "m", "i", "t">>}

NextResolve ==
    \/ \E k \in 1..MaxRef : Resolve(Ref(k))
    \/ \E ref \in OtherRefs : Resolve(ref)

SpecResolve == InitResolve /\ [][NextResolve]_vars

(***************************************************************************)
(* capture_snapshot on its own: a live session on one of the pages, the    *)
(* capture applied under every combination of faults, the page changed     *)
(* between captures.                                                       *)
(***************************************************************************)
CapturePages == {"blank", "home", "twins", "short", "full", "over"}

\* the positions whose inspection raises in the first and in the second loop
Fail1Sets == {{}, {1}}
Fail2Sets == {{}, {2}}

InitCapture ==
    /\ driver = "live"
    /\ loc \in CapturePages
    /\ current_snapshot = NoSnapshot
    /\ action_history = <<>>
    /\ recording_enabled = FALSE
    /\ pc = "idle"
    /\ call = NoCall
    /\ response = NoResponse
    /\ resolved = NoResolved
    /\ invoked = [on |-> FALSE, calls |-> <<>>]
    /\ captured = NoCapture
    /\ closed = NoClose
    /\ parked = NoParked
    /\ tabs = OneTab
    /\ explore = NoExploration

\* await context.capture_snapshot()
CaptureSnapshot(failPage, fail1, fail2) ==
    /\ \E o \in capture_snapshot_with(Ctx, failPage, fail1, fail2) :
          /\ SetCtx(o.c)
          /\ captured' = [done |-> TRUE, loc |-> loc, failPage |-> failPage,
                          fail1 |-> fail1, fail2 |-> fail2, raised |-> o.raised,
                          before |-> current_snapshot,
                          prior |-> [done |-> captured.done, loc |-> captured.loc,
                                     clean |-> /\ captured.done
                                               /\ ~captured.failPage
                                               /\ captured.fail1 = {}
                                               /\ captured.fail2 = {}]]
    /\ UNCHANGED <<pc, call, response, resolved, invoked, closed, parked, tabs, explore>>

\* the browser is taken to another page
Browse(l) ==
    /\ l # loc
    /\ loc' = l
    /\ UNCHANGED <<driver, current_snapshot, action_history, recording_enabled,
                   pc, call, response, resolved, invoked, captured, closed, parked, tabs, explore>>

NextCapture ==
    \/ \E failPage \in BOOLEAN, fail1 \in Fail1Sets, fail2 \in Fail2Sets :
          CaptureSnapshot(failPage, fail1, fail2)
    \/ \E l \in CapturePages : Browse(l)

SpecCapture == InitCapture /\ [][NextCapture]_vars

(***************************************************************************)
(* Properties.                                                             *)
(***************************************************************************)
\* the exception raised in the call in flight was raised while its
\* arguments were validated
RequiredFieldAbsent ==
    \E f \in Range(RequiredFields(call.tool)) : f \notin DOMAIN call.arguments

IsFailure(r) == "error" \in DOMAIN r

\* C1: in every snapshot that capture_snapshot has stored, the references
\* are e1, e2, ..., eN in traversal order: the j-th descriptor carries the
\* reference e<j>, so that they are pairwise distinct and leave no gap,
\* whichever elements failed to be inspected.
C1_DenseRefs ==
    current_snapshot.exists =>
        \A j \in DOMAIN current_snapshot.elements :
            current_snapshot.elements[j].ref = Ref(j)

\* C2: ref_locator follows a fixed order of precedence: the id when there
\* is one; else the tag whose text contains the (quote-escaped) text; else
\* the tag with the role; else the tag with all its classes; else, also for
\* a reference the snapshot does not hold, the data-ref attribute selector.
C2_LocatorPrecedence ==
    resolved.ref # <<>> =>
        LET L == resolved.locator
            known == HasRef(current_snapshot, resolved.ref)
            d == Lookup(current_snapshot, resolved.ref)
        IN IF known /\ d.attributes.id # <<>>
           THEN L = [by |-> "id", value |-> d.attributes.id]
           ELSE IF known /\ d.text # <<>>
           THEN /\ L.by = "xpath"
                /\ L.value = <<"//">> \o d.tag_name \o <<"[contains(text(), \"">>
                             \o EscapeQuotes(d.text) \o <<"\")]">>
           ELSE IF known /\ d.attributes.role # <<>>
           THEN /\ L.by = "xpath"
                /\ L.value = <<"//">> \o d.tag_name \o <<"[@role=\"">>
                             \o d.attributes.role \o <<"\"]">>
           ELSE IF known /\ d.css_classes # <<>>
           THEN /\ L.by = "css selector"
                /\ Len(L.value) >= Len(d.tag_name)
                /\ SubSeq(L.value, 1, Len(d.tag_name)) = d.tag_name
                /\ \A k \in DOMAIN d.css_classes :
                       Contains(L.value, <<".">> \o d.css_classes[k])
           ELSE /\ L.by = "css selector"
                /\ L.value = <<"[data-ref='">> \o resolved.ref \o <<"']">>

\* an element with an id, a text, a role and classes was resolved by its id
C2_Witness ==
    /\ resolved.ref # <<>>
    /\ HasRef(current_snapshot, resolved.ref)
    /\ LET d == Lookup(current_snapshot, resolved.ref)
       IN /\ d.attributes.id # <<>>
          /\ d.text # <<>>
          /\ d.attributes.role # <<>>
          /\ d.css_classes # <<>>
    /\ resolved.locator.by = "id"

\* C3: a call whose arguments lack a required field ends in a failure
\* result that names the tool, and neither the handler nor a deferred
\* action was invoked for it (nothing of the context changed).
C3_MissingFieldFails ==
    (pc # "idle" /\ RequiredFieldAbsent) =>
        /\ pc = "done"
        /\ IsFailure(response)
        /\ Contains(response.text, call.tool)
        /\ call.steps = {}
        /\ action_history = call.hist0
        /\ recording_enabled = call.rec0

\* click_element was called without its ref and has failed
C3_Witness ==
    /\ pc = "done"
    /\ call.tool = T_click
    /\ "ref" \notin DOMAIN call.arguments
    /\ IsFailure(response)
    /\ call.steps = {}

\* C4: no exception leaves run_tool: a call always ends with a result, and
\* when validation, the handler, the deferred action or the capture raised,
\* the result has an error field and a text that holds the tool's name and
\* the message of the exception.
C4_NeverPropagates ==
    /\ pc \in {"idle", "recorded", "handled", "acted", "done"}
    /\ pc = "done" =>
          /\ "text" \in DOMAIN response
          /\ call.exc # <<>> =>
                /\ IsFailure(response)
                /\ response.error = call.exc
                /\ Contains(response.text, call.tool)
                /\ Contains(response.text, call.exc)
          /\ call.exc = <<>> => ~IsFailure(response)

\* a deferred action raised and the call ended in a failure result
C4_Witness ==
    /\ pc = "done"
    /\ "action" \in call.steps
    /\ "action_ok" \notin call.steps
    /\ call.exc # <<>>
    /\ IsFailure(response)

\* C5: run_tool captures a snapshot exactly when the deferred action ran to
\* its end without raising and the result asks for a capture; the response
\* of such a call holds "Page URL: " followed by the URL of the snapshot
\* just captured and one line for each of its elements; the response of
\* every other call holds no page state.
C5_CaptureIffActed ==
    pc = "done" =>
        /\ "capture" \in call.steps
              <=> ("action_ok" \in call.steps /\ call.result.capture_snapshot)
        /\ "capture" \in call.steps =>
              /\ Contains(response.text, <<"Page URL: ">> \o current_snapshot.url)
              /\ \A j \in DOMAIN current_snapshot.elements :
                     Contains(response.text,
                              <<"[ref=">> \o current_snapshot.elements[j].ref \o <<"]">>)
        /\ "capture" \notin call.steps =>
              /\ ~Contains(response.text, <<"Page URL: ">>)
              /\ ~Contains(response.text, <<"[ref=">>)

\* the history-emptying and recording-ending tools, which break the
\* correspondence between the calls made and the entries kept
EndsOrEmptiesRecording == {T_stop, T_clear, T_reset, T_setup}

\* generate_script has been handled at the end of a sequence of calls that
\* began right after start_recording and holds at least one other call
GenerateAfterTrackedCalls ==
    /\ pc = "done"
    /\ call.tool = T_generate
    /\ "handle" \in call.steps
    /\ invoked.on
    /\ Len(invoked.calls) >= 2

\* a call made while recording is disabled adds no entry
DisabledCallAddsNothing ==
    (pc # "idle" /\ ~call.rec0) => action_history \in {call.hist0, <<>>}

RecordedCall == pc # "idle" /\ call.rec0 /\ ~RequiredFieldAbsent

\* C7: the entry of a call made with valid arguments while recording is
\* enabled is in the history before the handler is invoked, and is still
\* there when the handler or the deferred action has failed.
C7_EntryKeptOnFailure ==
    RecordedCall =>
        LET entry == HistoryEntry(call.tool, call.arguments)
        IN /\ pc = "recorded" => action_history = Append(call.hist0, entry)
           /\ (pc = "done" /\ call.exc # <<>>) =>
                 \E i \in DOMAIN action_history : action_history[i] = entry

\* C8 as the specification states it: every call made while recording is
\* enabled appends exactly one entry, with the tool's name and the raw
\* arguments; a call made while it is disabled appends none, and nothing
\* else makes the history grow.
C8_EveryEnabledCallRecorded ==
    pc # "idle" =>
        /\ call.steps = {} =>
              action_history =
                  IF call.rec0
                  THEN Append(call.hist0, HistoryEntry(call.tool, call.arguments))
                  ELSE call.hist0
        /\ Len(action_history) <= Len(call.hist0) + (IF call.rec0 THEN 1 ELSE 0)

\* C8: every call made while recording is enabled whose arguments pass
\* validation appends exactly one entry, with the tool's name and the raw
\* arguments; a call with invalid arguments or made while recording is
\* disabled appends none, and nothing else makes the history grow.
C8_ValidEnabledCallRecorded ==
    pc # "idle" =>
        /\ call.steps = {} =>
              action_history =
                  IF call.rec0 /\ ~RequiredFieldAbsent
                  THEN Append(call.hist0, HistoryEntry(call.tool, call.arguments))
                  ELSE call.hist0
        /\ Len(action_history)
              <= Len(call.hist0) + (IF call.rec0 /\ ~RequiredFieldAbsent THEN 1 ELSE 0)

\* a generate_script call was recorded with the arguments as submitted,
\* which lack the defaults its validated parameters hold
C8_Witness ==
    /\ pc = "recorded"
    /\ call.rec0
    /\ call.tool = T_generate
    /\ call.params # call.arguments
    /\ action_history = Append(call.hist0, HistoryEntry(T_generate, call.arguments))

\* C9 as the specification states it: when stop_recording has run,
\* recording is disabled and the history is what it was before the call.
C9_StopKeepsHistory ==
    (pc = "done" /\ call.tool = T_stop) =>
        /\ ~recording_enabled
        /\ action_history = call.hist0

\* C9: when stop_recording has run, recording is disabled and the history
\* is what it was before the call, followed by the entry of the
\* stop_recording call itself when recording was enabled; none is removed.
C9_StopAppendsOnlyItself ==
    (pc = "done" /\ call.tool = T_stop) =>
        /\ ~recording_enabled
        /\ action_history =
              IF call.rec0 THEN Append(call.hist0, HistoryEntry(T_stop, call.arguments))
              ELSE call.hist0

\* stop_recording has run on an enabled recording with a non-empty history
C9_Witness ==
    /\ pc = "done"
    /\ call.tool = T_stop
    /\ call.rec0
    /\ call.hist0 # <<>>
    /\ ~recording_enabled

\* C10: when start_recording has run, from whatever state, recording is
\* enabled and the history is empty: not even the start_recording call is
\* in it.
C10_StartEnablesAndEmpties ==
    (pc = "done" /\ call.tool = T_start) =>
        /\ recording_enabled
        /\ action_history = <<>>

\* start_recording has run on an enabled recording with a non-empty history
C10_Witness ==
    /\ pc = "done"
    /\ call.tool = T_start
    /\ call.rec0
    /\ call.hist0 # <<>>
    /\ recording_enabled

\* C11: when the browser raises while capture_snapshot reads the URL or the
\* title of the page, the capture returns normally and the current snapshot
\* is a snapshot without elements, whatever snapshot was current before.
C11_EmptyOnPageFailure ==
    (captured.done /\ captured.failPage) =>
        /\ ~captured.raised
        /\ current_snapshot.exists
        /\ current_snapshot.elements = <<>>

\* the page read failed during a capture made while a snapshot with
\* elements was current, on a page that has interactive elements
C11_Witness ==
    /\ captured.done
    /\ captured.failPage
    /\ captured.before.exists
    /\ captured.before.elements # <<>>
    /\ captured.loc = "home"
    /\ current_snapshot.elements = <<>>

\* the nodes of the page of the last capture that are interactive,
\* displayed and enabled, in traversal order
QualifyingNodes ==
    SelectSeq(Page(captured.loc).nodes,
              LAMBDA n : IsInteractive(n) /\ n.displayed /\ n.enabled)

\* C13: a capture whose page read and whose filtering did not fail stores
\* one descriptor for each of the first 100 qualifying nodes, in traversal
\* order: exactly 100 when the page has more than 100 qualifying nodes,
\* exactly k when it has k <= 100.
C13_CapInvariant ==
    (captured.done /\ ~captured.failPage /\ captured.fail1 = {}) =>
        /\ Len(current_snapshot.elements) = Min(Len(QualifyingNodes), 100)
        /\ \A j \in DOMAIN current_snapshot.elements :
               current_snapshot.elements[j].attributes.id = AttrOr(QualifyingNodes[j], "id")

C12_CaptureNeverFailsCall ==
    (pc = "done" /\ "action_ok" \in call.steps) => ~IsFailure(response)

\* C15: ref_locator returns a locator (a strategy and a value) for every
\* string, a reference of the snapshot or not, and the data-ref fallback
\* for a string that is no reference of the snapshot; the call leaves the
\* snapshot and the browser session as they were.
C15_ResolveTotalAndPure ==
    resolved.called =>
        /\ resolved.locator.by \in {"id", "xpath", "css selector"}
        /\ resolved.locator.value # <<>>
        /\ ~HasRef(current_snapshot, resolved.ref) =>
              resolved.locator = [by |-> "css selector",
                                  value |-> <<"[data-ref='">> \o resolved.ref \o <<"']">>]
        /\ current_snapshot = resolved.before
        /\ driver = "live"
        /\ loc = "home"

\* a word that is no reference of the snapshot was resolved
C15_Witness ==
    /\ resolved.called
    /\ resolved.ref = <<"s", "u", "b", "m", "i", "t">>
    /\ current_snapshot.elements # <<>>
    /\ ~HasRef(current_snapshot, resolved.ref)
    /\ resolved.locator.by = "css selector"

\* the call in flight is a click_element whose reference the snapshot it
\* met does not hold: the handler resolved it to the data-ref fallback, or
\* raised before resolving it
ClicksUnknownRef ==
    /\ call.tool = T_click
    /\ call.params # <<>>
    /\ \/ call.result.locator = FallbackLocator(call.params["ref"])
       \/ /\ "action" \notin call.steps
          /\ ~HasRef(current_snapshot, call.params["ref"])

\* C14 (as stated): a click_element with a reference that the current
\* snapshot does not hold ends as a failure whose message names the
\* reference, with a snapshot that lacks it, with no snapshot and with no
\* session alike.
C14_FailureNamesReference ==
    (pc \in {"done", "escaped"} /\ ClicksUnknownRef) =>
        /\ pc = "done"
        /\ IsFailure(response)
        /\ Contains(response.text, call.params["ref"])

\* the handler's step of a click_element with a reference the snapshot
\* does not hold: without a session object and without a snapshot the call
\* fails with the message of current_tab_or_die and of snapshot_or_die,
\* otherwise the reference is resolved to the data-ref fallback
UnknownRefHandled ==
    (/\ pc = "recorded"
     /\ call.tool = T_click
     /\ ~HasRef(current_snapshot, call.params["ref"])
     /\ pc' # pc) =>
        IF driver = "none"
        THEN /\ pc' = "done"
             /\ response' = FailureResponse(T_click, <<"No browser session active">>)
        ELSE IF ~current_snapshot.exists
        THEN /\ pc' = "done"
             /\ response' = FailureResponse(T_click,
                                <<"No snapshot available - call capture_page first">>)
        ELSE /\ pc' = "handled"
             /\ call'.result.locator = FallbackLocator(call.params["ref"])

\* the action's step of such a click: a lost session fails it with the
\* driver's message; on a live page without an element of that data-ref
\* it fails with a message that names the reference; only an element that
\* carries the data-ref lets it go on
UnknownRefActed ==
    (/\ pc = "handled"
     /\ call.tool = T_click
     /\ call.result.locator = FallbackLocator(call.params["ref"])
     /\ pc' # pc) =>
        IF driver # "live"
        THEN /\ pc' = "done"
             /\ response' = FailureResponse(T_click, <<"invalid session id">>)
        ELSE IF ~PageHasDataRef(loc, call.result.locator.value)
        THEN /\ pc' = "done"
             /\ IsFailure(response')
             /\ Contains(response'.text, call.params["ref"])
        ELSE pc' \in {"done", "acted"}

\* C14 (amended): a click_element with a reference that the current
\* snapshot does not hold never lets an exception out; it fails with "No
\* browser session active" without a session and with "No snapshot
\* available" without a snapshot, and with a live session and a snapshot it
\* fails with a message naming the reference unless an element of the page
\* carries that data-ref.
C14_UnknownRefClick ==
    [][UnknownRefHandled /\ UnknownRefActed /\ pc' # "escaped"]_vars

\* a click on an unknown reference failed on a live page, with the
\* reference in the message
C14_Witness ==
    /\ pc = "done"
    /\ call.tool = T_click
    /\ call.result.locator = FallbackLocator(UnknownRef)
    /\ driver = "live"
    /\ current_snapshot.exists
    /\ IsFailure(response)
    /\ Contains(response.text, <<"[data-ref='">> \o UnknownRef \o <<"']">>)

\* C17: the text that a successful capture_page call returns holds the
\* rendering of the snapshot just captured: the line of the page's URL,
\* the line of its title and one line for each element.
C17_CaptureTextHasRendering ==
    (pc = "done" /\ call.tool = T_capture /\ "action_ok" \in call.steps) =>
        /\ Contains(ClientText(response), <<"- ", "Page URL: ">> \o current_snapshot.url)
        /\ Contains(ClientText(response), <<"- ", "Page Title: ">> \o current_snapshot.title)
        /\ \A i \in DOMAIN current_snapshot.elements :
              Contains(ClientText(response), ElementLine(current_snapshot.elements[i]))

\* the tools that need the browser
BrowserTools == {T_navigate, T_capture, T_click, T_back, T_key}

\* C18: a call of a tool that needs the browser, begun after close_session
\* released the session, gets a session created for it: when it ends the
\* session is there, unless its launch was tried and failed.
C18_RecreatedAfterClose ==
    (/\ pc = "done"
     /\ call.closed0
     /\ call.tool \in BrowserTools
     /\ "handle" \in call.steps) =>
        \/ driver = "live"
        \/ call.exc = <<"session not created">>

\* C19: from the close of the context until the next capture no snapshot
\* is current, and no click_element call resolves a reference against one.
C19_NoSnapshotSurvivesClose ==
    closed.nocapture =>
        /\ ~current_snapshot.exists
        /\ ~(/\ pc = "handled"
             /\ call.tool = T_click
             /\ HasRef(current_snapshot, call.params["ref"]))

\* the session and the snapshot are what they were
SessionUntouched ==
    /\ driver' = driver
    /\ loc' = loc
    /\ current_snapshot' = current_snapshot

\* the step in which a handler returns a result without an action: the
\* call ends there with the acknowledgment
PreparedStep ==
    (/\ pc = "recorded"
     /\ pc' # pc
     /\ call'.exc = <<>>
     /\ ~call'.result.has_action) =>
        /\ pc' = "done"
        /\ response' = [text |-> <<"OK ">> \o call.tool \o <<" prepared">>,
                        code |-> call'.result.code]
        /\ call'.steps = {"handle"}
        /\ SessionUntouched

\* the step in which run_tool is entered
EntryStep == (pc = "idle" /\ pc' # pc) => SessionUntouched

\* C20: a call whose handler returns a result without an action returns
\* "<tool name> prepared" after the handler, with no action run and no
\* capture made, and neither its entry nor its handler changes the
\* session, the page it is on or the current snapshot.
C20_PreparedExecutesNothing == [][PreparedStep /\ EntryStep]_vars

\* a call without an action was acknowledged on a context that has a
\* session and a snapshot
C20_Witness ==
    /\ pc = "done"
    /\ call.tool = T_clear
    /\ ~call.result.has_action
    /\ response = [text |-> <<"OK ">> \o T_clear \o <<" prepared">>,
                   code |-> call.result.code]
    /\ call.steps = {"handle"}
    /\ driver = "live"
    /\ current_snapshot.elements # <<>>

\* C21: a navigate_to whose page load timed out does not end in a failure:
\* the action completes, the snapshot is captured and the response holds
\* its rendering, also when halting the load failed.
C21_TimeoutIsNotFailure ==
    (pc = "done" /\ call.tool = T_navigate /\ "timeout" \in call.steps) =>
        /\ ~IsFailure(response)
        /\ "capture" \in call.steps
        /\ Contains(response.text, <<"- ", "Page URL: ">> \o current_snapshot.url)

\* the lines of the snapshot's rendering in a run_tool response: those
\* after the transcript of a result without code
RunToolRendering(snap) ==
    LET lines == ResponseLines(ToolResult(<<>>, TRUE, TRUE), snap)
    IN SubSeq(lines, 5, Len(lines))

HeaderTags == {<<"h1">>, <<"h2">>, <<"h3">>, <<"h4">>, <<"h5">>, <<"h6">>}

\* C22: for every snapshot the rendering in a run_tool response and the
\* rendering that capture_page returns are the same lines, and the line of
\* every header-tag element carries its level marker.
C22_RenderingsAgree ==
    current_snapshot.exists =>
        /\ Join(RunToolRendering(current_snapshot), <<"\n">>)
               = SnapshotRendering(current_snapshot).snapshot
        /\ \A i \in DOMAIN current_snapshot.elements :
              current_snapshot.elements[i].tag_name \in HeaderTags =>
                  \E n \in 1..6 :
                      /\ current_snapshot.elements[i].tag_name = <<"h" \o ToString(n)>>
                      /\ Contains(YamlLine(current_snapshot.elements[i]),
                                  <<"[level=" \o ToString(n) \o "]">>)

\* C23: the current snapshot changes only in a step that runs the
\* context's capture_snapshot: the capture of run_tool, or the action of a
\* tool that calls it (capture_page, generator_setup_page).
C23_OnlyCaptureWritesSnapshot ==
    [][current_snapshot' # current_snapshot =>
          \/ pc = "acted"
          \/ pc = "handled" /\ call.tool \in {T_capture, T_setup}]_vars

\* the action's step of a reset_automation_session: it ends the call with
\* a success and leaves no session, no snapshot, an empty history and the
\* recording off
ResetStep ==
    (pc = "handled" /\ call.tool = T_reset /\ pc' # pc) =>
        /\ pc' = "done"
        /\ ~IsFailure(response')
        /\ driver' = "none"
        /\ ~current_snapshot'.exists
        /\ action_history' = <<>>
        /\ ~recording_enabled'

\* the steps of a navigate_to on a context without session and snapshot:
\* the handler accepts it, the action launches a session, and the capture
\* on the session that is still there ends the call with a success and a
\* snapshot; only a launch that fails or a page load that cannot be halted
\* fails the action
NavigateFromNothing ==
    /\ (/\ pc = "recorded" /\ call.tool = T_navigate
        /\ driver = "none" /\ ~current_snapshot.exists /\ pc' # pc)
          => pc' = "handled"
    /\ (/\ pc = "handled" /\ call.tool = T_navigate
        /\ driver = "none" /\ ~current_snapshot.exists /\ pc' # pc)
          => \/ driver' = "live" /\ pc' = "acted"
             \/ call'.exc \in {<<"session not created">>, <<"script timeout">>}
    /\ (/\ pc = "acted" /\ call.tool = T_navigate
        /\ driver = "live" /\ pc' # pc)
          => /\ pc' = "done"
             /\ ~IsFailure(response')
             /\ current_snapshot'.exists

InCall(p) == p \notin {"idle", "done"}

\* C24: of two requests submitted to the server at most one is inside
\* run_tool between validation and response: a call runs to its response
\* before the other request touches the context, so the snapshot in its
\* response is the one its own capture stored.
C24_CallsDoNotInterleave ==
    /\ ~(InCall(pc) /\ InCall(parked.pc))
    /\ (pc = "done" /\ "capture" \in call.steps /\ ~IsFailure(response)) =>
          response.text = Join(ResponseLines(call.result, current_snapshot), <<"\n">>)

\* the second client's call is past its action while the first client's
\* request, served before, waits outside run_tool
C24_Witness ==
    /\ parked.task = 1
    /\ ~InCall(parked.pc)
    /\ pc = "acted"
    /\ current_snapshot.exists
    /\ current_snapshot.elements # <<>>

\* C26: after a tab_close that succeeded and left a window open, the
\* focused window is open: it is the window that was current when that
\* was not the one closed, and the first remaining window otherwise.
C26_FocusOnOpenWindow ==
    (/\ tabs.last.op = "close"
     /\ ~tabs.last.raised
     /\ tabs.handles # <<>>
     /\ tabs.handles = Remaining(tabs.last.before, tabs.last.target)) =>
        /\ tabs.focus \in Range(tabs.handles)
        /\ tabs.focus = IF tabs.last.target # tabs.last.current
                        THEN tabs.last.current ELSE tabs.handles[1]

\* the id is carried by exactly one node of the page
UniqueId(page, id) ==
    Cardinality({i \in DOMAIN page.nodes : AttrOr(page.nodes[i], "id") = id}) = 1

\* C27: on the page as it was captured, for every reference of the
\* snapshot whose element has a non-empty id that no other node carries,
\* the locator that ref_locator returns selects a node, and the node is
\* the one that was captured under the reference.
C27_RoundTrip ==
    (captured.done /\ ~captured.raised /\ loc = captured.loc) =>
        \A i \in DOMAIN current_snapshot.elements :
            LET el == current_snapshot.elements[i]
                page == Page(loc)
            IN (el.attributes.id # <<>> /\ UniqueId(page, el.attributes.id)) =>
                  \A n \in find_element(page, ref_locator(current_snapshot, el.ref)) :
                      /\ n # 0
                      /\ ElementInfo(el.ref, page.nodes[n]) = el

\* the list page was captured: its third node, the second interactive one,
\* is e2 and is found by its id
C27_Witness ==
    /\ captured.done
    /\ loc = "short"
    /\ captured.loc = "short"
    /\ Len(current_snapshot.elements) = 3
    /\ current_snapshot.elements[2].ref = Ref(2)
    /\ ref_locator(current_snapshot, Ref(2)) = [by |-> ByID, value |-> <<"short", "-", "3">>]
    /\ find_element(Page(loc), ref_locator(current_snapshot, Ref(2))) = {3}

\* C28: the text that the caller of generate_script is sent holds what
\* the handler produced: every line of the result, the generated script
\* among them.
C28_ClientGetsScript ==
    (pc = "done" /\ call.tool = T_generate /\ call.result.script.generated) =>
        /\ ~IsFailure(response)
        /\ \A i \in DOMAIN call.result.code :
              Contains(ClientText(response), call.result.code[i])

\* C29: in the planner's exploration every href is navigated to at most
\* once, also when its navigation or capture raised, and the loop makes at
\* most one navigation for each link it was given.
C29_EachHrefOnce ==
    /\ \A h \in DOMAIN explore.navigated : explore.navigated[h] <= 1
    /\ explore.attempts <= Len(explore.links)
    /\ explore.i <= Len(explore.links) + 1

\* the standard click's errors
StandardClickErrors == {o.exc : o \in {e \in element_click(Ctx) : e.raised}}

\* the action's step of a click_element on a live session: one lookup and
\* no second one; without the element the call is over with the failure
\* of the lookup, no capture made and the snapshot as it was; after a
\* standard click that went through no JavaScript click; after one that
\* raised exactly one JavaScript click, and the call goes on to its capture
\* or is over with the failure of the standard click
ClickActed ==
    (/\ pc = "handled"
     /\ call.tool = T_click
     /\ driver = "live"
     /\ pc' # pc) =>
        LET trace == call'.trace
            found == FindsElement(Ctx, call.result.locator)
        IN /\ trace \in {<<"find_element">>, <<"find_element", "click">>,
                          <<"find_element", "click", "execute_script">>}
           /\ found = {FALSE} => trace = <<"find_element">>
           /\ found = {TRUE} => trace # <<"find_element">>
           /\ trace = <<"find_element">> =>
                 /\ pc' = "done"
                 /\ response' = FailureResponse(T_click, <<"no such element: ">>
                                                   \o call.result.locator.value)
                 /\ "capture" \notin call'.steps
                 /\ current_snapshot' = current_snapshot
           /\ trace = <<"find_element", "click">> =>
                 /\ pc' = "acted"
                 /\ "action_ok" \in call'.steps
           /\ trace = <<"find_element", "click", "execute_script">> =>
                 \/ /\ pc' = "acted"
                    /\ "action_ok" \in call'.steps
                 \/ /\ pc' = "done"
                    /\ \E e \in StandardClickErrors :
                          response' = FailureResponse(T_click, e)
                    /\ "capture" \notin call'.steps

\* a click_element whose action went through is over with a failure only
\* when its capture could not get a session
ClickSucceeds ==
    (/\ pc = "done"
     /\ call.tool = T_click
     /\ "action_ok" \in call.steps
     /\ IsFailure(response)) =>
        /\ "capture" \in call.steps
        /\ driver # "live"

====
